---------------------------- MODULE Spec2Model ----------------------------
(***************************************************************************)
(* git-stalker: the activity tracker (src/src/core/base.py), the GitHub    *)
(* activity source with its event normalizer (src/src/core/github.py) and  *)
(* the command track_activity (src/src/cli/main.py, src/src/config.py).    *)
(*                                                                         *)
(* Three specifications share the variables: Spec drives the tracker with  *)
(* abstract sources, SpecGitHub applies one operation of the GitHub source *)
(* to one input, and SpecCli steps through one run of the command, which   *)
(* records in run the requests it issues and the outcome of each call.     *)
(*                                                                         *)
(* Python values are modelled as follows.                                  *)
(*   - a call's outcome is Return(v) or Raise(cls), cls the exception      *)
(*     class name;                                                         *)
(*   - a str is a sequence of tokens (each token a piece of text), so that *)
(*     concatenation is \o, a prefix test is a test on sequences and a     *)
(*     slice is SubSeq; a str that is measured, indexed or sliced has one  *)
(*     character per token;                                                *)
(*   - a JSON value is tagged with its Python type: Str, Number, None,     *)
(*     Dict, List; a dict is a function from its keys.                     *)
(*   - a datetime is the integer instant it denotes (all instants are      *)
(*     comparable: the feed's timestamps carry a UTC designator).          *)
(***************************************************************************)
EXTENDS Integers, Sequences, FiniteSets, TLC

VARIABLES
    sources,       \* ActivityTracker.sources: the registered source objects
    call,          \* the tracker's last call: its arguments and its outcome
    validated,     \* history: the sources whose validate_credentials returned True
    organization,  \* GitHubActivitySource.organization
    gh,            \* the GitHub source's last call: its arguments and its outcome
    run            \* a run of the command track_activity: its options and its progress

vars == <<sources, call, validated, organization, gh, run>>

-----------------------------------------------------------------------------
(* Bounds *)

\* The longest source list a run registers.
MaxSources == 2

\* The most activities one source returns to the tracker in one call.
MaxActs == 2

\* The instants T1 < T2 < T3 of the activities the tracker merges.
Times == 1 .. 3

-----------------------------------------------------------------------------
(* Python outcomes *)

Return(v) == [ret |-> v]
Raise(cls) == [raise |-> cls]
IsRaise(r) == "raise" \in DOMAIN r
IsReturn(r) == "ret" \in DOMAIN r
None == [k |-> "null"]

-----------------------------------------------------------------------------
(* ActivityTracker, src/src/core/base.py *)

\* The objects a caller hands to add_source: two sources that implement the
\* protocol, and an object that lacks validate_credentials.
ActivitySourceMethods == {"get_activities", "validate_credentials"}

SourceA == [id |-> "source_a", methods |-> ActivitySourceMethods]
SourceB == [id |-> "source_b", methods |-> ActivitySourceMethods]
NotASource == [id |-> "plain_object", methods |-> {"get_activities"}]
Objects == {SourceA, SourceB, NotASource}

\* isinstance(source, ActivitySource) of a runtime_checkable Protocol: the
\* object has every method of the protocol.
IsActivitySource(source) == ActivitySourceMethods \subseteq source.methods

\* What source.validate_credentials() can do: return a truth value or raise.
ValidateOutcomes == {Return(TRUE), Return(FALSE), Raise("ValueError")}

\* add_source with the outcome v of source.validate_credentials(): the new
\* source list and what the call does to its caller.
add_source_unchecked(srcs, source, v) ==
    IF ~IsActivitySource(source)
    THEN [sources |-> srcs, out |-> Raise("TypeError")]
    ELSE IF IsRaise(v)
    THEN [sources |-> srcs, out |-> v]
    ELSE [sources |-> Append(srcs, source), out |-> Return(None)]

add_source(srcs, source, v) ==
    IF ~IsActivitySource(source)
    THEN [sources |-> srcs, out |-> Raise("TypeError")]
    ELSE IF IsRaise(v)
    THEN [sources |-> srcs, out |-> v]
    ELSE IF v.ret
    THEN [sources |-> Append(srcs, source), out |-> Return(None)]
    ELSE [sources |-> srcs, out |-> Raise("ValueError")]

\* An Activity a source returns to the tracker. The message labels the object:
\* the j-th activity of the i-th queried source.
Activity(i, j, t) ==
    [source |-> "github", timestamp |-> t, type |-> "WatchEvent",
     message |-> <<"activity ", ToString(i), ".", ToString(j)>>]

\* What a source's get_activities can do: raise, or return a list of at most
\* MaxActs activities, given here by their timestamps.
SourceOutcomes ==
    {Raise("HTTPError")} \cup
    UNION {{Return(ts) : ts \in [1 .. n -> Times]} : n \in 0 .. MaxActs}

\* The outcome o of the i-th source, its activities built.
SourceOutcome(i, o) ==
    IF IsRaise(o) THEN o
    ELSE Return([j \in 1 .. Len(o.ret) |-> Activity(i, j, o.ret[j])])

\* sorted(activities, key=lambda x: x.timestamp, reverse=True): Python's sort
\* is stable, and with reverse=True equal keys keep their original order. One
\* element is placed behind every element whose key is not smaller.
RECURSIVE InsertDesc(_, _)
InsertDesc(sorted, a) ==
    IF sorted = <<>> THEN <<a>>
    ELSE IF Head(sorted).timestamp >= a.timestamp
    THEN <<Head(sorted)>> \o InsertDesc(Tail(sorted), a)
    ELSE <<a>> \o sorted

RECURSIVE InsertAsc(_, _)
InsertAsc(sorted, a) ==
    IF sorted = <<>> THEN <<a>>
    ELSE IF Head(sorted).timestamp <= a.timestamp
    THEN <<Head(sorted)>> \o InsertAsc(Tail(sorted), a)
    ELSE <<a>> \o sorted

Reverse(s) == [i \in 1 .. Len(s) |-> s[Len(s) + 1 - i]]

RECURSIVE SortAscFrom(_, _)
SortAscFrom(acc, rest) ==
    IF rest = <<>> THEN acc ELSE SortAscFrom(InsertAsc(acc, Head(rest)), Tail(rest))

\* A stable ascending sort, reversed: equal timestamps come out in reverse.
sorted_then_reversed(activities) == Reverse(SortAscFrom(<<>>, activities))

RECURSIVE SortDescFrom(_, _)
SortDescFrom(acc, rest) ==
    IF rest = <<>> THEN acc ELSE SortDescFrom(InsertDesc(acc, Head(rest)), Tail(rest))

sorted_by_timestamp_reverse(activities) == SortDescFrom(<<>>, activities)

\* The loop of get_all_activities from source i on: activities collected so
\* far and the sources queried so far. outs[i] is what sources[i] does.
RECURSIVE query_until_failure(_, _, _, _)
query_until_failure(outs, i, activities, queried) ==
    IF i > Len(outs) THEN [activities |-> activities, queried |-> queried]
    ELSE IF IsRaise(outs[i])
    THEN [activities |-> activities, queried |-> Append(queried, i)]
    ELSE query_until_failure(outs, i + 1, activities \o outs[i].ret, Append(queried, i))

RECURSIVE query_sources(_, _, _, _)
query_sources(outs, i, activities, queried) ==
    IF i > Len(outs) THEN [activities |-> activities, queried |-> queried]
    ELSE IF IsRaise(outs[i])
    THEN query_sources(outs, i + 1, activities, Append(queried, i))
    ELSE query_sources(outs, i + 1, activities \o outs[i].ret, Append(queried, i))

\* get_all_activities: every source is queried in registration order, the
\* lists of those that return are concatenated, and the whole is sorted.
get_all_activities(srcs, outs) ==
    LET got == query_sources(outs, 1, <<>>, <<>>)
    IN  [out |-> Return(sorted_by_timestamp_reverse(got.activities)),
         queried |-> [k \in 1 .. Len(got.queried) |-> srcs[got.queried[k]]]]

NoCall == [op |-> "none"]

\* tracker.add_source(source)
AddSource ==
    /\ call.op # "get_all_activities"
    /\ Len(sources) < MaxSources
    /\ \E source \in Objects :
         \E v \in (IF IsActivitySource(source) THEN ValidateOutcomes ELSE {None}) :
            LET r == add_source(sources, source, v)
            IN  /\ sources' = r.sources
                /\ call' = [op |-> "add_source", source |-> source, validate |-> v,
                            before |-> sources, out |-> r.out]
                /\ validated' = IF v = Return(TRUE) THEN Append(validated, source)
                                                    ELSE validated
    /\ UNCHANGED <<organization, gh, run>>

\* tracker.get_all_activities(username, start_date, end_date), once per run
GetAllActivities ==
    /\ call.op # "get_all_activities"
    /\ \E os \in [1 .. Len(sources) -> SourceOutcomes] :
         LET outs == [i \in 1 .. Len(sources) |-> SourceOutcome(i, os[i])]
             r == get_all_activities(sources, outs)
         IN  call' = [op |-> "get_all_activities", outs |-> outs,
                      queried |-> r.queried, out |-> r.out]
    /\ UNCHANGED <<sources, validated, organization, gh, run>>

Init ==
    /\ sources = <<>>
    /\ call = NoCall
    /\ validated = <<>>
    /\ organization = None
    /\ gh = NoCall
    /\ run = NoCall

Next == AddSource \/ GetAllActivities

Spec == Init /\ [][Next]_vars

-----------------------------------------------------------------------------
(* JSON values and the Python operations github.py applies to them *)

Str(s) == [k |-> "str", s |-> s]
Number(n) == [k |-> "int", n |-> n]
List(l) == [k |-> "list", l |-> l]
Dict(d) == [k |-> "dict", d |-> d]
EmptyDict == Dict([x \in {} |-> None])

IsStr(v) == v.k = "str"
IsNumber(v) == v.k = "int"
IsList(v) == v.k = "list"
IsDict(v) == v.k = "dict"

\* A key a dict literal leaves out.
Absent == [k |-> "absent"]

\* The dict of the record f without the keys whose value is Absent.
MkDict(f) == Dict([key \in {x \in DOMAIN f : f[x] # Absent} |-> f[key]])

Has(v, key) == key \in DOMAIN v.d

\* v.get(key, default): only a dict has get.
Get(v, key, default) ==
    IF ~IsDict(v) THEN Raise("AttributeError")
    ELSE Return(IF Has(v, key) THEN v.d[key] ELSE default)

\* v.get(k1, {}).get(k2, default)
Get2(v, k1, k2, default) ==
    LET inner == Get(v, k1, EmptyDict)
    IN  IF IsRaise(inner) THEN inner ELSE Get(inner.ret, k2, default)

\* v[key]: KeyError on a dict without the key, TypeError on a str indexed by
\* a str and on values that are not subscriptable.
Item(v, key) ==
    IF ~IsDict(v) THEN Raise("TypeError")
    ELSE IF Has(v, key) THEN Return(v.d[key])
    ELSE Raise("KeyError")

\* The text an f-string puts for {v}; str(v) never raises on a JSON value.
Format(v) ==
    CASE IsStr(v) -> v.s
      [] IsNumber(v) -> <<ToString(v.n)>>
      [] IsList(v) -> <<"[", ToString(Len(v.l)), " items]">>
      [] IsDict(v) -> <<"{", ToString(Cardinality(DOMAIN v.d)), " keys}">>
      [] OTHER -> <<"None">>

\* bool(v)
Truthy(v) ==
    CASE IsStr(v) -> v.s # <<>>
      [] IsNumber(v) -> v.n # 0
      [] IsList(v) -> v.l # <<>>
      [] IsDict(v) -> DOMAIN v.d # {}
      [] OTHER -> FALSE

\* s.replace(old, new) on the tokens of s: every token old becomes new.
RECURSIVE ReplaceTokens(_, _, _)
ReplaceTokens(s, old, new) ==
    IF s = <<>> THEN <<>>
    ELSE (IF Head(s) = old THEN new ELSE <<Head(s)>>) \o ReplaceTokens(Tail(s), old, new)

\* v.replace(old, new): only a str has replace.
Replace(v, old, new) ==
    IF IsStr(v) THEN Return(Str(ReplaceTokens(v.s, old, new))) ELSE Raise("AttributeError")

\* s.split("\n")[0]: the tokens before the first newline.
RECURSIVE FirstLine(_)
FirstLine(s) ==
    IF s = <<>> \/ Head(s) = "\n" THEN <<>> ELSE <<Head(s)>> \o FirstLine(Tail(s))

\* s.startswith(prefix)
StartsWith(s, prefix) ==
    Len(s) >= Len(prefix) /\ SubSeq(s, 1, Len(prefix)) = prefix

\* s[:n]
Slice(s, n) == SubSeq(s, 1, IF Len(s) < n THEN Len(s) ELSE n)

\* s.capitalize(): the first letter upper case (the action verbs of the feed).
Capitalized ==
    [opened |-> "Opened", closed |-> "Closed", created |-> "Created",
     started |-> "Started", unknown |-> "Unknown"]

Capitalize(v) ==
    IF ~IsStr(v) THEN Raise("AttributeError")
    ELSE IF v.s = <<>> THEN Return(v)
    ELSE Return(Str(<<IF Head(v.s) \in DOMAIN Capitalized THEN Capitalized[Head(v.s)]
                      ELSE Head(v.s)>> \o Tail(v.s)))

-----------------------------------------------------------------------------
(* Transport: GitHubActivitySource._fetch_github_data *)

\* int(s) of a header value: the digit strings of the feed, ValueError for
\* anything else ('unknown' is the default of a missing header).
EpochSeconds == [x \in {"1700000000"} |-> 1700000000]
ParseInt(s) == IF s \in DOMAIN EpochSeconds THEN Return(EpochSeconds[s]) ELSE Raise("ValueError")

\* The subclasses of requests.RequestException that session.get and
\* raise_for_status raise.
RequestExceptions == {"ConnectionError", "HTTPError"}

HeaderGet(headers, name, default) ==
    IF name \in DOMAIN headers THEN headers[name] ELSE default

\* What the server does with one request: no response at all, or a response
\* with a status code, headers and a JSON body.
NetworkError == [kind |-> "network_error"]
Response(status, headers, body) ==
    [kind |-> "response", status |-> status, headers |-> headers, body |-> body]

\* The 403 branch of _fetch_github_data raises outside the RequestException
\* handler when the reset header is no number.
fetch_without_rate_limit_branch(resp) ==
    IF resp.kind = "network_error" THEN Raise("ConnectionError")
    ELSE IF resp.status >= 400 THEN Raise("HTTPError")
    ELSE Return(resp.body)

_fetch_github_data(resp) ==
    IF resp.kind = "network_error" THEN Raise("ConnectionError")
    ELSE LET rate_limit_reset == HeaderGet(resp.headers, "X-RateLimit-Reset", "unknown")
         IN  IF /\ resp.status = 403
                /\ "X-RateLimit-Remaining" \in DOMAIN resp.headers
                /\ resp.headers["X-RateLimit-Remaining"] = "0"
                /\ IsRaise(ParseInt(rate_limit_reset))
             THEN ParseInt(rate_limit_reset)
             ELSE IF resp.status >= 400 THEN Raise("HTTPError")
             ELSE Return(resp.body)

\* validate_credentials: True when the fetch returns, False on a
\* RequestException; any other exception leaves the method.
validate_credentials(resp) ==
    LET r == _fetch_github_data(resp)
    IN  IF IsReturn(r) THEN Return(TRUE)
        ELSE IF r.raise \in RequestExceptions THEN Return(FALSE)
        ELSE r

-----------------------------------------------------------------------------
(* Event normalizer: _simplify_event_details *)

\* A str of one token.
T(text) == Str(<<text>>)

\* len(v): TypeError for values without a length.
PyLen(v) ==
    CASE IsStr(v) -> Return(Len(v.s))
      [] IsList(v) -> Return(Len(v.l))
      [] IsDict(v) -> Return(Cardinality(DOMAIN v.d))
      [] OTHER -> Raise("TypeError")

\* commit.get("message", "").split("\n")[0] for each commit of the list.
RECURSIVE first_lines(_)
first_lines(commits) ==
    IF commits = <<>> THEN Return(<<>>)
    ELSE LET message == Get(Head(commits), "message", Str(<<>>))
         IN  IF IsRaise(message) THEN message
             ELSE IF ~IsStr(message.ret) THEN Raise("AttributeError")
             ELSE LET rest == first_lines(Tail(commits))
                  IN  IF IsRaise(rest) THEN rest
                      ELSE Return(<<Str(FirstLine(message.ret.s))>> \o rest.ret)

\* The number of commits whose message is listed.
ListedCommits == 3

\* [... for commit in commits[:3]]: a dict cannot be sliced, and the items of
\* a sliced str are strs, which have no get.
commit_messages(commits) ==
    CASE IsList(commits) -> first_lines(Slice(commits.l, ListedCommits))
      [] IsStr(commits) -> IF commits.s = <<>> THEN Return(<<>>) ELSE Raise("AttributeError")
      [] OTHER -> Raise("TypeError")

\* The length after which a comment body is cut.
CommentLimit == 100

Ellipsis == <<".", ".", ".">>

\* A fragment that is marked with the ellipsis only when the body was cut.
comment_fragment_if_longer(body) ==
    IF IsStr(body)
    THEN Return(Str(IF Len(body.s) > CommentLimit
                    THEN Slice(body.s, CommentLimit) \o Ellipsis
                    ELSE body.s))
    ELSE Raise("TypeError")

\* body[:100] + "...": only a str can be sliced and joined to a str.
comment_fragment(body) ==
    IF IsStr(body) THEN Return(Str(Slice(body.s, CommentLimit) \o Ellipsis))
    ELSE Raise("TypeError")

BaseUrl == <<"https://github.com">>

push_details(repo, repo_url, payload) ==
    LET ref == Get(payload, "ref", T("unknown"))
    IN  IF IsRaise(ref) THEN ref
        ELSE LET branch == Replace(ref.ret, "refs/heads/", <<>>)
                 commits == Get(payload, "commits", List(<<>>)).ret
                 count == PyLen(commits)
                 messages == commit_messages(commits)
             IN  IF IsRaise(branch) THEN branch
                 ELSE IF IsRaise(count) THEN count
                 ELSE IF IsRaise(messages) THEN messages
                 ELSE Return(Dict(
                        [repository |-> repo,
                         repository_url |-> Str(repo_url),
                         ref |-> ref.ret,
                         commit_count |-> Number(count.ret),
                         commit_messages |-> List(messages.ret),
                         compare_url |->
                            Str(repo_url \o <<"/compare/">>
                                \o Format(Get(payload, "before", Str(<<>>)).ret)
                                \o <<"...">>
                                \o Format(Get(payload, "head", Str(<<>>)).ret))]))

pull_request_details(repo, repo_url, payload) ==
    LET pr == Get(payload, "pull_request", EmptyDict)
    IN  IF IsRaise(pr) THEN pr
        ELSE IF ~IsDict(pr.ret) THEN Raise("AttributeError")
        ELSE Return(Dict(
               [action |-> Get(payload, "action", T("unknown")).ret,
                title |-> Get(pr.ret, "title", T("unknown")).ret,
                number |-> Get(pr.ret, "number", T("unknown")).ret,
                repository |-> repo,
                repository_url |-> Str(repo_url),
                state |-> Get(pr.ret, "state", T("unknown")).ret,
                url |-> Get(pr.ret, "html_url", None).ret]))

issues_details(repo, repo_url, payload) ==
    LET issue == Get(payload, "issue", EmptyDict)
    IN  IF IsRaise(issue) THEN issue
        ELSE IF ~IsDict(issue.ret) THEN Raise("AttributeError")
        ELSE Return(Dict(
               [action |-> Get(payload, "action", T("unknown")).ret,
                title |-> Get(issue.ret, "title", T("unknown")).ret,
                number |-> Get(issue.ret, "number", T("unknown")).ret,
                repository |-> repo,
                repository_url |-> Str(repo_url),
                url |-> Get(issue.ret, "html_url", None).ret]))

issue_comment_details(repo, repo_url, payload) ==
    LET action == Get(payload, "action", T("unknown"))
        number == Get2(payload, "issue", "number", T("unknown"))
        body == Get2(payload, "comment", "body", Str(<<>>))
        fragment == comment_fragment(body.ret)
    IN  IF IsRaise(action) THEN action
        ELSE IF IsRaise(number) THEN number
        ELSE IF IsRaise(body) THEN body
        ELSE IF IsRaise(fragment) THEN fragment
        ELSE Return(Dict(
               [action |-> action.ret,
                issue_number |-> number.ret,
                repository |-> repo,
                repository_url |-> Str(repo_url),
                comment_fragment |-> fragment.ret,
                url |-> Get2(payload, "comment", "html_url", None).ret,
                issue_url |-> Get2(payload, "issue", "html_url", None).ret]))

create_details(repo, repo_url, payload) ==
    LET ref_type == Get(payload, "ref_type", T("unknown"))
        ref == Get(payload, "ref", T("unknown"))
    IN  IF IsRaise(ref_type) THEN ref_type
        ELSE Return(Dict(
               [ref_type |-> ref_type.ret,
                ref |-> ref.ret,
                repository |-> repo,
                repository_url |-> Str(repo_url),
                url |-> Str(IF ref_type.ret = T("branch")
                            THEN repo_url \o <<"/tree/">> \o Format(ref.ret)
                            ELSE IF ref_type.ret = T("tag")
                            THEN repo_url \o <<"/releases/tag/">> \o Format(ref.ret)
                            ELSE repo_url)]))

delete_details(repo, repo_url, payload) ==
    LET ref_type == Get(payload, "ref_type", T("unknown"))
    IN  IF IsRaise(ref_type) THEN ref_type
        ELSE Return(Dict(
               [ref_type |-> ref_type.ret,
                ref |-> Get(payload, "ref", T("unknown")).ret,
                repository |-> repo,
                repository_url |-> Str(repo_url)]))

watch_details(repo, repo_url, payload) ==
    LET action == Get(payload, "action", T("unknown"))
    IN  IF IsRaise(action) THEN action
        ELSE Return(Dict(
               [action |-> action.ret,
                repository |-> repo,
                repository_url |-> Str(repo_url)]))

other_details(event_type, repo, repo_url) ==
    Return(Dict([event_type |-> event_type,
                 repository |-> repo,
                 repository_url |-> Str(repo_url)]))

\* event["repo"]["name"]: a KeyError when the event names no repository.
repository_name_required(event) ==
    LET repo == Item(event, "repo")
    IN  IF IsRaise(repo) THEN repo ELSE Item(repo.ret, "name")

\* event.get("repo", {}).get("name", "unknown")
repository_name(event) == Get2(event, "repo", "name", T("unknown"))

\* The body of the try block of _simplify_event_details.
simplify_try(event_type, event) ==
    LET repo == repository_name(event)
        payload == Get(event, "payload", EmptyDict)
    IN  IF IsRaise(repo) THEN repo
        ELSE IF IsRaise(payload) THEN payload
        ELSE LET repo_url == BaseUrl \o <<"/">> \o Format(repo.ret)
             IN  CASE event_type = T("PushEvent") -> push_details(repo.ret, repo_url, payload.ret)
                   [] event_type = T("PullRequestEvent") ->
                        pull_request_details(repo.ret, repo_url, payload.ret)
                   [] event_type = T("IssuesEvent") -> issues_details(repo.ret, repo_url, payload.ret)
                   [] event_type = T("IssueCommentEvent") ->
                        issue_comment_details(repo.ret, repo_url, payload.ret)
                   [] event_type = T("CreateEvent") -> create_details(repo.ret, repo_url, payload.ret)
                   [] event_type = T("DeleteEvent") -> delete_details(repo.ret, repo_url, payload.ret)
                   [] event_type = T("WatchEvent") -> watch_details(repo.ret, repo_url, payload.ret)
                   [] OTHER -> other_details(event_type, repo.ret, repo_url)

FallbackDetails == Dict([error |-> T("Failed to process event details")])

\* A handler for KeyError alone lets the other exceptions through.
simplify_catching_key_error(event_type, event) ==
    LET r == simplify_try(event_type, event)
    IN  IF IsRaise(r) /\ r.raise = "KeyError" THEN Return(FallbackDetails) ELSE r

\* _simplify_event_details: except Exception turns every failure of the try
\* block into the fallback mapping.
_simplify_event_details(event_type, event) ==
    LET r == simplify_try(event_type, event)
    IN  IF IsRaise(r) THEN Return(FallbackDetails) ELSE r

-----------------------------------------------------------------------------
(* Event normalizer: _get_human_readable_message *)

\* details[key] for every key of need: KeyError when one is missing.
Missing(details, need) == ~(need \subseteq DOMAIN details.d)

\* v[0]
First(v) ==
    CASE IsList(v) -> IF v.l = <<>> THEN Raise("IndexError") ELSE Return(v.l[1])
      [] IsStr(v) -> IF v.s = <<>> THEN Raise("IndexError") ELSE Return(Str(<<v.s[1]>>))
      [] IsDict(v) -> Raise("KeyError")
      [] OTHER -> Raise("TypeError")

\* 's' if commit_count > 1 else '': only numbers compare with 1.
plural_suffix(commit_count) ==
    IF ~IsNumber(commit_count) THEN Raise("TypeError")
    ELSE Return(IF commit_count.n > 1 THEN <<"s">> ELSE <<>>)

push_message(details) ==
    IF Missing(details, {"commit_count", "repository", "ref", "commit_messages"})
    THEN Raise("KeyError")
    ELSE LET commit_count == details.d["commit_count"]
             repo == details.d["repository"]
             branch == Replace(details.d["ref"], "refs/heads/", <<>>)
             messages == details.d["commit_messages"]
             first == First(messages)
             suffix == plural_suffix(commit_count)
         IN  IF IsRaise(branch) THEN branch
             ELSE IF Truthy(messages) /\ IsRaise(first) THEN first
             ELSE IF IsRaise(suffix) THEN suffix
             ELSE Return(Str(<<"Pushed ">> \o Format(commit_count) \o <<" commit">>
                             \o suffix.ret \o <<" to ">> \o Format(repo) \o <<"/">>
                             \o branch.ret.s
                             \o (IF Truthy(messages) THEN <<": ">> \o Format(first.ret)
                                 ELSE <<>>)))

pull_request_message(details) ==
    IF Missing(details, {"action", "title", "number", "repository"}) THEN Raise("KeyError")
    ELSE LET action == Capitalize(details.d["action"])
         IN  IF IsRaise(action) THEN action
             ELSE Return(Str(action.ret.s \o <<" PR #">> \o Format(details.d["number"])
                             \o <<" in ">> \o Format(details.d["repository"]) \o <<": ">>
                             \o Format(details.d["title"])))

issues_message(details) ==
    IF Missing(details, {"action", "title", "number", "repository"}) THEN Raise("KeyError")
    ELSE LET action == Capitalize(details.d["action"])
         IN  IF IsRaise(action) THEN action
             ELSE Return(Str(action.ret.s \o <<" issue #">> \o Format(details.d["number"])
                             \o <<" in ">> \o Format(details.d["repository"]) \o <<": ">>
                             \o Format(details.d["title"])))

issue_comment_message(details) ==
    IF Missing(details, {"repository", "issue_number", "comment_fragment"})
    THEN Raise("KeyError")
    ELSE Return(Str(<<"Commented on issue #">> \o Format(details.d["issue_number"])
                    \o <<" in ">> \o Format(details.d["repository"]) \o <<": ">>
                    \o Format(details.d["comment_fragment"])))

create_message(details) ==
    IF Missing(details, {"ref_type", "ref", "repository"}) THEN Raise("KeyError")
    ELSE Return(Str(<<"Created ">> \o Format(details.d["ref_type"]) \o <<" ">>
                    \o Format(details.d["ref"]) \o <<" in ">>
                    \o Format(details.d["repository"])))

delete_message(details) ==
    IF Missing(details, {"ref_type", "ref", "repository"}) THEN Raise("KeyError")
    ELSE Return(Str(<<"Deleted ">> \o Format(details.d["ref_type"]) \o <<" ">>
                    \o Format(details.d["ref"]) \o <<" in ">>
                    \o Format(details.d["repository"])))

watch_message(details) ==
    IF Missing(details, {"repository"}) THEN Raise("KeyError")
    ELSE Return(Str(<<"Starred repository ">> \o Format(details.d["repository"])))

other_message(event_type, details) ==
    Return(Str(<<"Performed ">> \o Format(event_type) \o <<" on ">>
               \o Format(Get(details, "repository", T("unknown repository")).ret)))

\* The body of the try block of _get_human_readable_message.
message_try(event_type, details) ==
    CASE event_type = T("PushEvent") -> push_message(details)
      [] event_type = T("PullRequestEvent") -> pull_request_message(details)
      [] event_type = T("IssuesEvent") -> issues_message(details)
      [] event_type = T("IssueCommentEvent") -> issue_comment_message(details)
      [] event_type = T("CreateEvent") -> create_message(details)
      [] event_type = T("DeleteEvent") -> delete_message(details)
      [] event_type = T("WatchEvent") -> watch_message(details)
      [] OTHER -> other_message(event_type, details)

\* A handler for AttributeError alone lets a missing key through.
message_catching_attribute_error(event_type, details) ==
    LET r == message_try(event_type, details)
    IN  IF IsRaise(r) /\ r.raise = "AttributeError"
        THEN Return(Str(<<"Performed ">> \o Format(event_type)))
        ELSE r

\* _get_human_readable_message: except Exception turns every failure of the
\* try block into "Performed {event_type}".
_get_human_readable_message(event_type, details) ==
    LET r == message_try(event_type, details)
    IN  IF IsRaise(r) THEN Return(Str(<<"Performed ">> \o Format(event_type))) ELSE r

-----------------------------------------------------------------------------
(* Activity source: _is_org_event and get_activities *)

\* A prefix test on the organization's name alone, without the "/".
is_org_event_without_slash(org, event) ==
    IF ~Truthy(org) THEN Return(TRUE)
    ELSE LET repo_name == Get2(event, "repo", "name", Str(<<>>))
         IN  IF IsRaise(repo_name) THEN repo_name
             ELSE IF ~IsStr(repo_name.ret) THEN Raise("AttributeError")
             ELSE Return(StartsWith(repo_name.ret.s, org.s))

\* _is_org_event: every event belongs when no organization is configured
\* (None or ""); otherwise repo.name must start with "{organization}/".
_is_org_event(org, event) ==
    IF ~Truthy(org) THEN Return(TRUE)
    ELSE LET repo_name == Get2(event, "repo", "name", Str(<<>>))
         IN  IF IsRaise(repo_name) THEN repo_name
             ELSE IF ~IsStr(repo_name.ret) THEN Raise("AttributeError")
             ELSE Return(StartsWith(repo_name.ret.s, org.s \o <<"/">>))

\* The instants the feed's timestamps denote.
IsoInstants ==
    ("2024-02-20T00:00:00" :> 0) @@ ("2024-02-20T12:00:01" :> 1)
    @@ ("2024-02-20T12:00:02" :> 2) @@ ("2024-02-20T12:00:03" :> 3)
    @@ ("2024-02-21T00:00:00" :> 4)

\* datetime.fromisoformat(s): a date-time with the offset +00:00 is the
\* instant it denotes; text that is no date-time is a ValueError. (The feed
\* writes every date-time with the Z designator.)
FromIsoFormat(s) ==
    IF Len(s) = 2 /\ s[1] \in DOMAIN IsoInstants /\ s[2] = "+00:00"
    THEN Return(IsoInstants[s[1]])
    ELSE Raise("ValueError")

\* datetime.fromisoformat(event["created_at"].replace("Z", "+00:00"))
event_timestamp(event) ==
    LET created_at == Item(event, "created_at")
    IN  IF IsRaise(created_at) THEN created_at
        ELSE LET text == Replace(created_at.ret, "Z", <<"+00:00">>)
             IN  IF IsRaise(text) THEN text ELSE FromIsoFormat(text.ret.s)

\* An event the organization filter drops.
Skipped == [skip |-> TRUE]

\* The body of the per-event try block: the Activity, the filter's skip, or
\* the exception the handler catches.
process_event(org, event) ==
    LET belongs == _is_org_event(org, event)
    IN  IF IsRaise(belongs) THEN belongs
        ELSE IF ~belongs.ret THEN Skipped
        ELSE LET type == Item(event, "type")
             IN  IF IsRaise(type) THEN type
                 ELSE LET details == _simplify_event_details(type.ret, event)
                          message == _get_human_readable_message(type.ret, details.ret)
                          timestamp == event_timestamp(event)
                      IN  IF IsRaise(details) THEN details
                          ELSE IF IsRaise(message) THEN message
                          ELSE IF IsRaise(timestamp) THEN timestamp
                          ELSE Return([source |-> "github",
                                       timestamp |-> timestamp.ret,
                                       type |-> type.ret,
                                       details |-> details.ret,
                                       message |-> message.ret.s])

\* A loop that gives up at the first event that fails.
RECURSIVE process_events_until_failure(_, _, _)
process_events_until_failure(org, events, activities) ==
    IF events = <<>> THEN activities
    ELSE LET r == process_event(org, Head(events))
         IN  IF IsRaise(r) THEN activities
             ELSE process_events_until_failure(org, Tail(events),
                    IF IsReturn(r) THEN Append(activities, r.ret) ELSE activities)

\* The loop over events_data: an event that is filtered out or fails is
\* left out and the loop goes on.
RECURSIVE process_events(_, _, _)
process_events(org, events, activities) ==
    IF events = <<>> THEN activities
    ELSE LET r == process_event(org, Head(events))
         IN  process_events(org, Tail(events),
                IF IsReturn(r) THEN Append(activities, r.ret) ELSE activities)

\* The keys of a dict, in some order.
RECURSIVE KeySeq(_)
KeySeq(keys) ==
    IF keys = {} THEN <<>>
    ELSE LET key == CHOOSE x \in keys : TRUE IN <<T(key)>> \o KeySeq(keys \ {key})

\* for event in events_data: the items of a list, the keys of a dict, the
\* characters of a str; any other value is not iterable.
Iterate(v) ==
    CASE IsList(v) -> Return(v.l)
      [] IsDict(v) -> Return(KeySeq(DOMAIN v.d))
      [] IsStr(v) -> Return([i \in 1 .. Len(v.s) |-> Str(<<v.s[i]>>)])
      [] OTHER -> Raise("TypeError")

\* A datetime argument: the instant it denotes.
DateTime(t) == [k |-> "datetime", t |-> t]

\* date.isoformat() + "Z" if date else None
date_str(date) ==
    IF date = None THEN None
    ELSE Str(<<CHOOSE text \in DOMAIN IsoInstants : IsoInstants[text] = date.t, "Z">>)

\* The debug line of get_activities, the only use of start_date and end_date.
date_range_logged(start_date, end_date) ==
    <<"Date range: ">> \o Format(date_str(start_date)) \o <<" to ">>
    \o Format(date_str(end_date))

\* get_activities: a failed fetch is raised again; otherwise the Activities of
\* the events that pass the filter and can be processed. The date range is
\* written to the log and nothing else is done with it.
get_activities(org, start_date, end_date, resp) ==
    LET fetched == _fetch_github_data(resp)
    IN  IF IsRaise(fetched) THEN fetched
        ELSE LET events == Iterate(fetched.ret)
             IN  IF IsRaise(events) THEN events
                 ELSE Return(process_events(org, events.ret, <<>>))

-----------------------------------------------------------------------------
(* The inputs of the GitHub source: responses, feeds and raw events *)

\* The most events in one page of the feed.
MaxFeed == 2

\* The most commits in one push.
MaxCommits == 4

\* The most tokens in a repository name given to the organization filter.
MaxNameLen == 3

\* All sequences over S of length at most n.
SeqsUpTo(S, n) == UNION {[1 .. m -> S] : m \in 0 .. n}

\* The organization a source is constructed with.
Organizations == {None, Str(<<>>), T("acme")}

HeaderSets ==
    {[x \in {} |-> ""],
     [x \in {"X-RateLimit-Remaining"} |-> "57"],
     [x \in {"X-RateLimit-Remaining"} |-> "0"],
     ("X-RateLimit-Remaining" :> "0") @@ ("X-RateLimit-Reset" :> "1700000000"),
     ("X-RateLimit-Remaining" :> "0") @@ ("X-RateLimit-Reset" :> "soon"),
     ("X-RateLimit-Remaining" :> "57") @@ ("X-RateLimit-Reset" :> "1700000000")}

ErrorBody == Dict([message |-> T("error")])

\* What the server can answer: nothing, an error status, or 200 with one of bodies.
Responses(bodies) ==
    {NetworkError}
    \cup {Response(status, headers, ErrorBody) : status \in {401, 403, 404, 500},
                                                 headers \in HeaderSets}
    \cup {Response(200, headers, body) : headers \in HeaderSets, body \in bodies}

UserProfile == Dict([login |-> T("octocat")])

Event(type, created_at, repo, payload) ==
    MkDict([type |-> type, created_at |-> created_at, repo |-> repo, payload |-> payload])

Repo(name) == MkDict([name |-> name])

Stamp(date_time) == Str(<<date_time, "Z">>)

AcmeWidgets == Str(<<"acme", "/", "widgets">>)
OtherWidgets == Str(<<"other", "/", "widgets">>)
AcmeCorpWidgets == Str(<<"acme", "corp", "/", "widgets">>)

Commit(message) == MkDict([message |-> message])

GoodCommits == {Commit(T("fix bug")), Commit(Str(<<"add feature", "\n", "details">>))}
CommitPool == GoodCommits \cup {Commit(Absent), Commit(None), T("not a commit")}

\* The commit lists of a push: well-formed ones of every length, and short
\* ones that hold malformed commits.
CommitLists == SeqsUpTo(GoodCommits, MaxCommits) \cup SeqsUpTo(CommitPool, 2)

ShortCommitLists == SeqsUpTo(GoodCommits, 2) \cup SeqsUpTo(CommitPool, 1)

\* A comment body of n characters.
Body(n) == Str([i \in 1 .. n |-> ToString(i % 10)])

BodyLengths == {0, 1, 99, 100, 101, 150}

EventTypes ==
    {T("PushEvent"), T("PullRequestEvent"), T("IssuesEvent"), T("IssueCommentEvent"),
     T("CreateEvent"), T("DeleteEvent"), T("WatchEvent"), T("ForkEvent")}

RecognizedTypes == EventTypes \ {T("ForkEvent")}

Actions == {Absent, T("opened"), None}

RefTypes == {Absent, T("branch"), T("tag"), T("repository"), None}

Refs == {Absent, Str(<<"refs/heads/", "main">>), T("v1.0"), None}

Thing ==
    MkDict([title |-> T("Fix it"), number |-> Number(7), state |-> T("open"),
            html_url |-> T("https://github.com/acme/widgets/pull/7")])

\* The payloads of an event of type t: every field absent, well-formed or
\* malformed.
Payloads(t, commitLists) ==
    {Absent, None, EmptyDict} \cup
    CASE t = T("PushEvent") ->
           {MkDict([ref |-> ref, commits |-> commits, before |-> sha, head |-> sha]) :
              ref \in Refs,
              commits \in {Absent, None, Number(2), Str(<<"a", "b", "c">>), Str(<<>>), EmptyDict}
                          \cup {List(l) : l \in commitLists},
              sha \in {Absent, T("abc123")}}
      [] t = T("PullRequestEvent") ->
           {MkDict([action |-> action, pull_request |-> pr]) :
              action \in Actions, pr \in {Absent, None, T("7"), EmptyDict, Thing}}
      [] t = T("IssuesEvent") ->
           {MkDict([action |-> action, issue |-> issue]) :
              action \in Actions, issue \in {Absent, None, T("7"), EmptyDict, Thing}}
      [] t = T("IssueCommentEvent") ->
           {MkDict([action |-> action, issue |-> issue, comment |-> comment]) :
              action \in {Absent, T("created")},
              issue \in {Absent, None, Thing},
              comment \in {Absent, None, EmptyDict,
                           MkDict([body |-> None, html_url |-> Absent]),
                           MkDict([body |-> List(<<T("a")>>), html_url |-> Absent])}
                          \cup {MkDict([body |-> Body(n), html_url |-> T("https://c")]) :
                                  n \in BodyLengths}}
      [] t = T("CreateEvent") ->
           {MkDict([ref_type |-> ref_type, ref |-> ref]) : ref_type \in RefTypes, ref \in Refs}
      [] t = T("DeleteEvent") ->
           {MkDict([ref_type |-> ref_type, ref |-> ref]) : ref_type \in RefTypes, ref \in Refs}
      [] t = T("WatchEvent") ->
           {MkDict([action |-> action]) : action \in {Absent, T("started"), None}}
      [] OTHER -> {MkDict([forkee |-> None])}

RepoShapes == {Absent, None, T("acme/widgets"), EmptyDict, Repo(AcmeWidgets), Repo(None),
               Repo(Number(5))}

\* The raw events the normalizer is applied to, each with its type tag.
TypedEvents(repos, commitLists) ==
    UNION {{<<t, Event(t, Stamp("2024-02-20T12:00:01"), repo, payload)>> :
              repo \in repos, payload \in Payloads(t, commitLists)} : t \in EventTypes}
    \cup {<<t, e>> : t \in EventTypes, e \in {T("not an event"), None}}

NormEvents == TypedEvents(RepoShapes, CommitLists)

\* A mapping without one of its keys.
Without(details, key) == Dict([x \in DOMAIN details.d \ {key} |-> details.d[x]])

SimplifiedDetails ==
    {_simplify_event_details(te[1], te[2]).ret :
        te \in TypedEvents({Absent, Repo(AcmeWidgets)}, ShortCommitLists)}

\* The details mappings a message is made from: what simplify returns, the
\* same with one key missing, and mappings with values of another type.
DetailsInputs ==
    SimplifiedDetails
    \cup UNION {{Without(d, key) : key \in DOMAIN d.d} : d \in SimplifiedDetails}
    \cup {Dict([commit_count |-> c, repository |-> AcmeWidgets, ref |-> T("main"),
                commit_messages |-> m]) :
            c \in {T("2"), None}, m \in {List(<<>>), Number(1), Str(<<"f", "i", "x">>), None,
                                                        EmptyDict}}

\* The pages of the feed: good events, events of other organizations, and
\* events that cannot be processed.
FeedEvents ==
    {Event(T("PushEvent"), Stamp("2024-02-20T12:00:01"), Repo(AcmeWidgets),
           MkDict([commits |-> List(<<Commit(T("test commit"))>>)])),
     Event(T("WatchEvent"), Stamp("2024-02-20T12:00:02"), Repo(OtherWidgets), EmptyDict),
     Event(T("IssuesEvent"), Stamp("2024-02-20T12:00:03"), Repo(AcmeCorpWidgets),
           MkDict([action |-> T("opened"), issue |-> Thing])),
     Event(T("ForkEvent"), Stamp("2024-02-20T12:00:02"), Repo(AcmeWidgets), Absent),
     Event(T("PushEvent"), Stamp("2024-02-20T12:00:03"), Repo(AcmeWidgets), None),
     Event(T("WatchEvent"), Stamp("2024-02-20T12:00:02"), Absent, EmptyDict),
     Event(T("WatchEvent"), Stamp("2024-02-20T12:00:01"), None, EmptyDict),
     Event(Absent, Stamp("2024-02-20T12:00:01"), Repo(AcmeWidgets), EmptyDict),
     Event(T("WatchEvent"), Absent, Repo(AcmeWidgets), EmptyDict),
     Event(T("WatchEvent"), T("yesterday"), Repo(AcmeWidgets), EmptyDict),
     Event(T("WatchEvent"), None, Repo(AcmeWidgets), EmptyDict),
     T("not an event")}

FeedBodies == {List(l) : l \in SeqsUpTo(FeedEvents, MaxFeed)} \cup {ErrorBody, None}

\* The bounds of the date range a caller gives: none, or the instant T2.
DateBounds == {None, DateTime(2)}

\* The events the organization filter is applied to.
NameTokens == {"acme", "corp", "other", "/", "widgets"}

FilterEvents ==
    {Event(T("WatchEvent"), Stamp("2024-02-20T12:00:01"), Repo(Str(name)), EmptyDict) :
        name \in SeqsUpTo(NameTokens, MaxNameLen)}
    \cup {Event(T("WatchEvent"), Stamp("2024-02-20T12:00:01"), repo, EmptyDict) :
            repo \in RepoShapes}
    \cup {T("not an event")}

-----------------------------------------------------------------------------
(* The GitHub source: one call on a constructed source *)

\* source.validate_credentials()
ValidateCredentials ==
    /\ gh = NoCall
    /\ \E resp \in Responses({UserProfile}) :
          gh' = [op |-> "validate_credentials", resp |-> resp,
                 out |-> validate_credentials(resp)]
    /\ UNCHANGED <<sources, call, validated, organization, run>>

\* source.get_activities(username, start_date, end_date)
GetActivities ==
    /\ gh = NoCall
    /\ \E resp \in Responses(FeedBodies), start_date \in DateBounds, end_date \in DateBounds :
          gh' = [op |-> "get_activities", resp |-> resp,
                 start_date |-> start_date, end_date |-> end_date,
                 logged |-> date_range_logged(start_date, end_date),
                 out |-> get_activities(organization, start_date, end_date, resp)]
    /\ UNCHANGED <<sources, call, validated, organization, run>>

\* source._is_org_event(event)
IsOrgEvent ==
    /\ gh = NoCall
    /\ \E event \in FilterEvents :
          gh' = [op |-> "_is_org_event", event |-> event,
                 out |-> _is_org_event(organization, event)]
    /\ UNCHANGED <<sources, call, validated, organization, run>>

\* source._simplify_event_details(event_type, event)
SimplifyEventDetails ==
    /\ gh = NoCall
    /\ \E te \in NormEvents :
          gh' = [op |-> "_simplify_event_details", event_type |-> te[1], event |-> te[2],
                 out |-> _simplify_event_details(te[1], te[2])]
    /\ UNCHANGED <<sources, call, validated, organization, run>>

\* source._get_human_readable_message(event_type, details)
GetHumanReadableMessage ==
    /\ gh = NoCall
    /\ \E event_type \in EventTypes, details \in DetailsInputs :
          gh' = [op |-> "_get_human_readable_message", event_type |-> event_type,
                 details |-> details,
                 out |-> _get_human_readable_message(event_type, details)]
    /\ UNCHANGED <<sources, call, validated, organization, run>>

\* GitHubActivitySource(token, organization)
InitGitHub ==
    /\ sources = <<>>
    /\ call = NoCall
    /\ validated = <<>>
    /\ organization \in Organizations
    /\ gh = NoCall
    /\ run = NoCall

NextGitHub ==
    \/ ValidateCredentials
    \/ GetActivities
    \/ IsOrgEvent
    \/ SimplifyEventDetails
    \/ GetHumanReadableMessage

SpecGitHub == InitGitHub /\ [][NextGitHub]_vars

-----------------------------------------------------------------------------
(* The command track_activity (src/cli/main.py, src/config.py)              *)

\* The value of GITHUB_TOKEN as it is, set or not.
get_github_token_unchecked(token) == Return(token)

\* get_github_token: the value of GITHUB_TOKEN (None when it is not set); a
\* missing or empty value is a ValueError.
get_github_token(token) ==
    IF ~Truthy(token) THEN Raise("ValueError") ELSE Return(token)

\* The dates of the format %Y-%m-%d, each with the instant of its midnight.
Days == ("2024-02-20" :> 0) @@ ("2024-02-21" :> 4)

\* datetime.strptime(date, "%Y-%m-%d") if date else None
strptime(date) ==
    IF ~Truthy(date) THEN Return(None)
    ELSE IF date.s \in {<<day>> : day \in DOMAIN Days} THEN Return(DateTime(Days[date.s[1]]))
    ELSE Raise("ValueError")

\* The integers GITHUB_RETRY_TOTAL is set to.
RetryTotals == ("0" :> 0) @@ ("3" :> 3)

\* int(get_env_var("GITHUB_RETRY_TOTAL", "0")) in the constructor of the source
retry_total(value) ==
    LET text == IF value = None THEN <<"0">> ELSE value.s
    IN  IF text \in {<<n>> : n \in DOMAIN RetryTotals} THEN Return(RetryTotals[text[1]])
        ELSE Raise("ValueError")

\* The GitHubActivitySource the command registers.
GitHubSource == [id |-> "github", methods |-> ActivitySourceMethods]

\* The options and the environment of a run.
Tokens == {None, Str(<<>>), T("ghp_token")}
DateOptions == {None, T("2024-02-20"), T("2024-02-21"), T("20-02-2024")}
OutputFormats == {"pretty", "json"}
RetryValues == {None, T("3"), T("many")}

\* The events of the feed a run fetches.
CliEvents ==
    {Event(T("PushEvent"), Stamp("2024-02-20T12:00:01"), Repo(AcmeWidgets),
           MkDict([commits |-> List(<<Commit(T("test commit"))>>)])),
     Event(T("WatchEvent"), Stamp("2024-02-20T12:00:02"), Repo(OtherWidgets), EmptyDict),
     T("not an event")}

CliFeedBodies == {List(l) : l \in SeqsUpTo(CliEvents, MaxFeed)} \cup {ErrorBody}

\* The requests of a run, by the path of their URL.
UserUrl == <<"https://api.github.com", "/user">>
EventsUrl == <<"https://api.github.com", "/users/", "octocat", "/events">>

\* The run ends with the exception raised at the step named.
Failed(at, error) == [run EXCEPT !.pc = "failed", !.at = at, !.error = error]

\* What the display loop prints for an activity.
Printed(activity, output_format) ==
    IF output_format = "pretty"
    THEN <<activity.timestamp, activity.source, activity.message>>
    ELSE <<activity.source, activity.type, activity.timestamp, activity.details>>

\* start = strptime(start_date) ...; end = strptime(end_date) ...: before the
\* try block of the command.
ParseDates ==
    /\ run.pc = "start"
    /\ LET start == strptime(run.start_date)
           end == strptime(run.end_date)
       IN  run' = IF IsRaise(start) THEN Failed("strptime", start)
                  ELSE IF IsRaise(end) THEN Failed("strptime", end)
                  ELSE [run EXCEPT !.pc = "parsed", !.start = start.ret, !.end = end.ret]
    /\ UNCHANGED <<sources, call, validated, organization, gh>>

\* tracker = ActivityTracker(); github_token = get_github_token()
GetGithubToken ==
    /\ run.pc = "parsed"
    /\ LET token == get_github_token(run.token)
       IN  run' = IF IsRaise(token) THEN Failed("get_github_token", token)
                  ELSE [run EXCEPT !.pc = "token", !.github_token = token.ret]
    /\ UNCHANGED <<sources, call, validated, organization, gh>>

\* github_source = GitHubActivitySource(token=github_token, organization=organization)
NewGitHubSource ==
    /\ run.pc = "token"
    /\ LET retries == retry_total(run.retry_total)
       IN  IF IsRaise(retries)
           THEN run' = Failed("GitHubActivitySource", retries) /\ UNCHANGED organization
           ELSE /\ run' = [run EXCEPT !.pc = "constructed"]
                /\ organization' = run.organization
    /\ UNCHANGED <<sources, call, validated, gh>>

\* tracker.add_source(github_source): the credentials are validated with a
\* request for /user.
CliAddSource ==
    /\ run.pc = "constructed"
    /\ \E resp \in Responses({UserProfile}) :
         LET r == add_source(sources, GitHubSource, validate_credentials(resp))
             requested == [run EXCEPT !.requests = Append(@, UserUrl)]
         IN  /\ sources' = r.sources
             /\ run' = IF IsRaise(r.out)
                       THEN [requested EXCEPT !.pc = "failed", !.at = "add_source",
                                              !.error = r.out]
                       ELSE [requested EXCEPT !.pc = "added"]
    /\ UNCHANGED <<call, validated, organization, gh>>

\* The run after get_all_activities: one request for each registered source,
\* the outcome of each fetch, and the merged list.
activities_fetched(rn, srcs, outs) ==
    [rn EXCEPT !.pc = "fetched",
               !.requests = @ \o [i \in 1 .. Len(srcs) |-> EventsUrl],
               !.fetch = outs,
               !.activities = get_all_activities(srcs, outs).out.ret]

\* activities = tracker.get_all_activities(username, start, end): every
\* registered source requests its feed.
CliGetAllActivities ==
    /\ run.pc = "added"
    /\ \E resps \in [1 .. Len(sources) -> Responses(CliFeedBodies)] :
         run' = activities_fetched(run, sources,
                   [i \in 1 .. Len(sources) |->
                      get_activities(organization, run.start, run.end, resps[i])])
    /\ UNCHANGED <<sources, call, validated, organization, gh>>

\* for activity in activities: console.print(...); the command returns.
Display ==
    /\ run.pc = "fetched"
    /\ run' = [run EXCEPT !.pc = "done",
                          !.printed = [i \in 1 .. Len(run.activities) |->
                                         Printed(run.activities[i], run.output_format)]]
    /\ UNCHANGED <<sources, call, validated, organization, gh>>

InitCli ==
    /\ sources = <<>>
    /\ call = NoCall
    /\ validated = <<>>
    /\ organization = None
    /\ gh = NoCall
    /\ \E token \in Tokens, org \in Organizations, start_date \in DateOptions,
          end_date \in DateOptions, output_format \in OutputFormats,
          retries \in RetryValues :
         run = [pc |-> "start", at |-> "", error |-> None,
                token |-> token, organization |-> org,
                start_date |-> start_date, end_date |-> end_date,
                output_format |-> output_format, retry_total |-> retries,
                start |-> None, end |-> None, github_token |-> None,
                requests |-> <<>>, fetch |-> <<>>, activities |-> <<>>,
                printed |-> <<>>]

NextCli ==
    \/ ParseDates
    \/ GetGithubToken
    \/ NewGitHubSource
    \/ CliAddSource
    \/ CliGetAllActivities
    \/ Display

\* The steps that wait for nothing outside the process are taken.
SpecCli ==
    /\ InitCli
    /\ [][NextCli]_vars
    /\ WF_vars(ParseDates)
    /\ WF_vars(GetGithubToken)

-----------------------------------------------------------------------------
(* Claims about the tracker, checked under Spec *)

\* The lists of the sources that returned, concatenated in registration order.
RECURSIVE Collected(_)
Collected(outs) ==
    IF outs = <<>> THEN <<>>
    ELSE (IF IsRaise(Head(outs)) THEN <<>> ELSE Head(outs).ret) \o Collected(Tail(outs))

AtTime(s, t) == SelectSeq(s, LAMBDA a : a.timestamp = t)

Range(s) == {s[k] : k \in 1 .. Len(s)}

\* C1: get_all_activities returns exactly the activities of the sources that
\* returned, none lost and none duplicated, by timestamp descending, and the
\* activities of one timestamp in the order they were collected in.
C1_MergedSortedStable ==
    call.op = "get_all_activities" =>
        /\ IsReturn(call.out)
        /\ LET res == call.out.ret
               all == Collected(call.outs)
           IN  /\ Len(res) = Len(all)
               /\ \A k \in 1 .. Len(res) - 1 : res[k].timestamp >= res[k + 1].timestamp
               /\ \A t \in Times : AtTime(res, t) = AtTime(all, t)

\* C1 witness: sources returning [T1, T3] and [T2] yield [T3, T2, T1].
C1_Witness ==
    /\ call.op = "get_all_activities"
    /\ call.outs = <<Return(<<Activity(1, 1, 1), Activity(1, 2, 3)>>),
                     Return(<<Activity(2, 1, 2)>>)>>
    /\ call.out = Return(<<Activity(1, 2, 3), Activity(2, 1, 2), Activity(1, 1, 1)>>)

\* C2: when some source raises in get_activities, get_all_activities raises
\* nothing, has queried every registered source (also those after the one that
\* raised), and its result holds every activity of every source that returned
\* and nothing else.
C2_SourceIsolation ==
    (call.op = "get_all_activities" /\ \E i \in 1 .. Len(call.outs) : IsRaise(call.outs[i])) =>
        /\ IsReturn(call.out)
        /\ call.queried = sources
        /\ \A i \in 1 .. Len(call.outs) :
             ~IsRaise(call.outs[i]) => Range(call.outs[i].ret) \subseteq Range(call.out.ret)
        /\ \A a \in Range(call.out.ret) :
             \E i \in 1 .. Len(call.outs) :
                ~IsRaise(call.outs[i]) /\ a \in Range(call.outs[i].ret)

\* C2 witness: the first of two sources raises, the second returns two
\* activities, and both are in the result.
C2_Witness ==
    /\ call.op = "get_all_activities"
    /\ Len(call.outs) = 2
    /\ IsRaise(call.outs[1])
    /\ call.outs[2] = Return(<<Activity(2, 1, 1), Activity(2, 2, 2)>>)
    /\ call.out = Return(<<Activity(2, 2, 2), Activity(2, 1, 1)>>)
    /\ call.queried = sources

\* C3: the source list is, in call order, the sources whose
\* validate_credentials returned True; an add_source whose validation did not
\* return True raises and leaves the list as it was; only validated sources are
\* queried.
C3_OnlyValidatedSources ==
    /\ sources = validated
    /\ (call.op = "add_source" /\ call.validate # Return(TRUE)) =>
          IsRaise(call.out) /\ sources = call.before
    /\ (call.op = "add_source" /\ call.validate = Return(TRUE)) =>
          IsReturn(call.out) /\ sources = Append(call.before, call.source)
    /\ call.op = "get_all_activities" => Range(call.queried) \subseteq Range(validated)

\* C3 witness: with one source registered, an add_source of another whose
\* validation returns False has raised.
C3_Witness ==
    /\ call.op = "add_source"
    /\ call.source = SourceB
    /\ call.validate = Return(FALSE)
    /\ call.out = Raise("ValueError")
    /\ sources = <<SourceA>>

-----------------------------------------------------------------------------
(* Claims about the GitHub source, checked under SpecGitHub *)

\* The fetch of a call returned a list of events.
FetchedList(c) ==
    c.resp.kind = "response" /\ c.resp.status < 400 /\ IsList(c.resp.body)

HasKey(v, key) == IsDict(v) /\ key \in DOMAIN v.d

\* repo.name of the event is a str that starts with "org/".
NameStartsWith(org, e) ==
    /\ HasKey(e, "repo")
    /\ HasKey(e.d["repo"], "name")
    /\ IsStr(e.d["repo"].d["name"])
    /\ LET name == e.d["repo"].d["name"].s
       IN  /\ Len(name) > Len(org.s)
           /\ \A i \in 1 .. Len(org.s) : name[i] = org.s[i]
           /\ name[Len(org.s) + 1] = "/"

Configured(org) == org # None /\ org # Str(<<>>)

PassesFilter(org, e) == Configured(org) => NameStartsWith(org, e)

HasTypeTag(e) == HasKey(e, "type")

ParsableCreatedAt(e) ==
    /\ HasKey(e, "created_at")
    /\ IsStr(e.d["created_at"])
    /\ \E date_time \in DOMAIN IsoInstants : e.d["created_at"].s = <<date_time, "Z">>

InstantOf(e) == IsoInstants[e.d["created_at"].s[1]]

\* C4: once the event list was fetched, get_activities returns, in feed
\* order, one Activity per event that passes the organization filter, has a
\* type tag and a parsable created_at, with source "github" and the event's
\* type tag; the other events are left out and those after them still count.
C4_PerEventIsolation ==
    (gh.op = "get_activities" /\ FetchedList(gh)) =>
        /\ IsReturn(gh.out)
        /\ LET kept == SelectSeq(gh.resp.body.l,
                         LAMBDA e : /\ PassesFilter(organization, e)
                                    /\ HasTypeTag(e)
                                    /\ ParsableCreatedAt(e))
               got == gh.out.ret
           IN  /\ Len(got) = Len(kept)
               /\ \A k \in 1 .. Len(got) :
                    /\ got[k].source = "github"
                    /\ got[k].type = kept[k].d["type"]
                    /\ got[k].timestamp = InstantOf(kept[k])

\* C4 witness: a page whose first event cannot be processed and whose second
\* is a push yields the push's Activity.
C4_Witness ==
    /\ gh.op = "get_activities"
    /\ FetchedList(gh)
    /\ Len(gh.resp.body.l) = 2
    /\ gh.resp.body.l[1] = T("not an event")
    /\ HasTypeTag(gh.resp.body.l[2])
    /\ IsReturn(gh.out)
    /\ Len(gh.out.ret) = 1
    /\ gh.out.ret[1].type = T("PushEvent")
    /\ gh.out.ret[1].timestamp = 1

\* C5: with an organization configured, the filter retains an event exactly
\* when its repo.name starts with "org/" (an event without a repository name
\* is not retained); with none configured it retains every event. The events
\* get_activities returns an Activity for are the retained ones.
C5_OrganizationFilter ==
    /\ gh.op = "_is_org_event" =>
          (gh.out = Return(TRUE)) = PassesFilter(organization, gh.event)
    /\ (gh.op = "_is_org_event" /\ ~Configured(organization)) => gh.out = Return(TRUE)
    /\ (gh.op = "get_activities" /\ FetchedList(gh) /\ IsReturn(gh.out)) =>
          Len(gh.out.ret) =
             Len(SelectSeq(gh.resp.body.l,
                   LAMBDA e : /\ HasTypeTag(e)
                              /\ ParsableCreatedAt(e)
                              /\ (Configured(organization) => NameStartsWith(organization, e))))

\* C5 witness: for the organization acme, of a page with an event of
\* acme/widgets and one of other/widgets only the first is returned.
C5_Witness ==
    /\ organization = T("acme")
    /\ gh.op = "get_activities"
    /\ FetchedList(gh)
    /\ Len(gh.resp.body.l) = 2
    /\ HasKey(gh.resp.body.l[1], "repo") /\ gh.resp.body.l[1].d["repo"] = Repo(AcmeWidgets)
    /\ HasKey(gh.resp.body.l[2], "repo") /\ gh.resp.body.l[2].d["repo"] = Repo(OtherWidgets)
    /\ IsReturn(gh.out)
    /\ Len(gh.out.ret) = 1
    /\ gh.out.ret[1].details.d["repository"] = AcmeWidgets

\* A field that is present and is not of the type its extraction needs.
PresentNot(v, key, IsType(_)) == HasKey(v, key) /\ ~IsType(v.d[key])

\* A commit whose first line cannot be taken.
BadCommit(c) == ~IsDict(c) \/ PresentNot(c, "message", IsStr)

\* A commits field that cannot be counted or listed.
BadCommits(v) ==
    \/ ~IsList(v) /\ v # Str(<<>>)
    \/ IsList(v) /\ \E i \in 1 .. Len(v.l) : i <= ListedCommits /\ BadCommit(v.l[i])

\* The raw event has a field of an unexpected shape among those the
\* extraction for event_type reads.
Malformed(event_type, event) ==
    \/ ~IsDict(event)
    \/ PresentNot(event, "repo", IsDict)
    \/ /\ event_type \in RecognizedTypes
       /\ HasKey(event, "payload")
       /\ LET payload == event.d["payload"]
          IN  \/ ~IsDict(payload)
              \/ /\ event_type = T("PushEvent")
                 /\ \/ PresentNot(payload, "ref", IsStr)
                    \/ HasKey(payload, "commits") /\ BadCommits(payload.d["commits"])
              \/ event_type = T("PullRequestEvent") /\ PresentNot(payload, "pull_request", IsDict)
              \/ event_type = T("IssuesEvent") /\ PresentNot(payload, "issue", IsDict)
              \/ /\ event_type = T("IssueCommentEvent")
                 /\ \/ PresentNot(payload, "issue", IsDict)
                    \/ PresentNot(payload, "comment", IsDict)
                    \/ /\ HasKey(payload, "comment")
                       /\ PresentNot(payload.d["comment"], "body", IsStr)

\* C6: _simplify_event_details raises for no event type and no raw event and
\* returns a mapping; when a field has an unexpected shape the mapping is
\* exactly the fallback, and a mapping that is not the fallback is complete.
C6_SimplifyNeverRaises ==
    gh.op = "_simplify_event_details" =>
        /\ IsReturn(gh.out)
        /\ IsDict(gh.out.ret)
        /\ Malformed(gh.event_type, gh.event) => gh.out.ret = FallbackDetails
        /\ gh.out.ret # FallbackDetails => HasKey(gh.out.ret, "repository")

\* C6 witness: a push whose commits field is null yields the fallback.
C6_Witness ==
    /\ gh.op = "_simplify_event_details"
    /\ gh.event_type = T("PushEvent")
    /\ HasKey(gh.event, "payload")
    /\ HasKey(gh.event.d["payload"], "commits")
    /\ gh.event.d["payload"].d["commits"] = None
    /\ gh.out = Return(FallbackDetails)

\* C7: for a recognized event type and a raw event whose fields are each
\* missing or well-formed, the mapping holds repository, which is repo.name or
\* "unknown" when that is absent, and repository_url, which is
\* "https://github.com/" followed by repository.
C7_RepositoryKeys ==
    (/\ gh.op = "_simplify_event_details"
     /\ gh.event_type \in RecognizedTypes
     /\ ~Malformed(gh.event_type, gh.event)) =>
        /\ IsReturn(gh.out)
        /\ HasKey(gh.out.ret, "repository")
        /\ HasKey(gh.out.ret, "repository_url")
        /\ gh.out.ret.d["repository"] =
              (IF HasKey(gh.event, "repo") /\ HasKey(gh.event.d["repo"], "name")
               THEN gh.event.d["repo"].d["name"]
               ELSE T("unknown"))
        /\ gh.out.ret.d["repository_url"] =
              Str(<<"https://github.com", "/">> \o Format(gh.out.ret.d["repository"]))

\* C7 witness: a pull request event with neither repo nor payload yields
\* repository "unknown" and the URL of it.
C7_Witness ==
    /\ gh.op = "_simplify_event_details"
    /\ gh.event_type = T("PullRequestEvent")
    /\ IsDict(gh.event)
    /\ ~HasKey(gh.event, "repo")
    /\ ~HasKey(gh.event, "payload")
    /\ IsReturn(gh.out)
    /\ gh.out.ret.d["repository"] = T("unknown")
    /\ gh.out.ret.d["repository_url"] = Str(<<"https://github.com", "/", "unknown">>)

\* The keys the message template of an event type reads.
TemplateKeys(event_type) ==
    CASE event_type = T("PushEvent") -> {"commit_count", "repository", "ref", "commit_messages"}
      [] event_type = T("PullRequestEvent") -> {"action", "title", "number", "repository"}
      [] event_type = T("IssuesEvent") -> {"action", "title", "number", "repository"}
      [] event_type = T("IssueCommentEvent") -> {"repository", "issue_number", "comment_fragment"}
      [] event_type = T("CreateEvent") -> {"ref_type", "ref", "repository"}
      [] event_type = T("DeleteEvent") -> {"ref_type", "ref", "repository"}
      [] event_type = T("WatchEvent") -> {"repository"}
      [] OTHER -> {}

\* C8: _get_human_readable_message raises for no event type and no details
\* mapping and returns a non-empty string; when a key of the type's template
\* is missing the string is "Performed {event_type}".
C8_DescribeNeverRaises ==
    gh.op = "_get_human_readable_message" =>
        /\ IsReturn(gh.out)
        /\ IsStr(gh.out.ret)
        /\ gh.out.ret.s # <<>>
        /\ \A i \in 1 .. Len(gh.out.ret.s) : gh.out.ret.s[i] # ""
        /\ (\E key \in TemplateKeys(gh.event_type) : ~HasKey(gh.details, key)) =>
              gh.out.ret = Str(<<"Performed ">> \o gh.event_type.s)

\* C8 witness: the message of a watch event for the error fallback of
\* simplify is "Performed WatchEvent".
C8_Witness ==
    /\ gh.op = "_get_human_readable_message"
    /\ gh.event_type = T("WatchEvent")
    /\ gh.details = FallbackDetails
    /\ gh.out = Return(Str(<<"Performed ", "WatchEvent">>))

\* C9 (as claimed): the Push message says "commit" without "s" only when
\* commit_count is 1, and "commits" for every other count, 0 included.
C9_PushPluralization ==
    (/\ gh.op = "_get_human_readable_message"
     /\ gh.event_type = T("PushEvent")
     /\ IsReturn(gh.out)
     /\ Head(gh.out.ret.s) = "Pushed ") =>
        /\ gh.out.ret.s[3] = " commit"
        /\ (gh.out.ret.s[4] = "s") = (gh.details.d["commit_count"].n # 1)

\* C10 (as claimed): validate_credentials never raises; it returns True when
\* the request succeeds and False for every way the request fails.
C10_ValidateNeverRaises ==
    gh.op = "validate_credentials" =>
        /\ IsReturn(gh.out)
        /\ gh.out.ret = (gh.resp.kind = "response" /\ gh.resp.status < 400)

\* C11 (as claimed): when start_date or end_date is given, get_activities
\* returns no Activity whose timestamp lies outside [start_date, end_date].
C11_DateRangeRespected ==
    (gh.op = "get_activities" /\ IsReturn(gh.out)) =>
        \A k \in 1 .. Len(gh.out.ret) :
            /\ gh.start_date # None => gh.out.ret[k].timestamp >= gh.start_date.t
            /\ gh.end_date # None => gh.out.ret[k].timestamp <= gh.end_date.t

\* The comment body of an issue comment event, when the event holds one.
HasCommentBody(event) ==
    /\ HasKey(event, "payload")
    /\ HasKey(event.d["payload"], "comment")
    /\ HasKey(event.d["payload"].d["comment"], "body")
    /\ IsStr(event.d["payload"].d["comment"].d["body"])

CommentBody(event) == event.d["payload"].d["comment"].d["body"].s

\* C14: for an issue comment event whose comment body has n characters,
\* comment_fragment is the first min(n, 100) characters of the body followed
\* by "..."; it is never longer than 103 characters, and a body of 150
\* characters yields its first 100 characters and "...".
C14_CommentTruncation ==
    (/\ gh.op = "_simplify_event_details"
     /\ gh.event_type = T("IssueCommentEvent")
     /\ ~Malformed(gh.event_type, gh.event)
     /\ HasCommentBody(gh.event)) =>
        LET body == CommentBody(gh.event)
            n == Len(body)
            kept == IF n < 100 THEN n ELSE 100
        IN  /\ IsReturn(gh.out)
            /\ HasKey(gh.out.ret, "comment_fragment")
            /\ IsStr(gh.out.ret.d["comment_fragment"])
            /\ LET fragment == gh.out.ret.d["comment_fragment"].s
               IN  /\ Len(fragment) = kept + 3
                   /\ \A i \in 1 .. kept : fragment[i] = body[i]
                   /\ \A i \in 1 .. 3 : fragment[kept + i] = "."
                   /\ Len(fragment) <= 103
                   /\ n = 150 => Len(fragment) = 103

\* C14 witness: a comment body of 150 characters yields a fragment of 103
\* characters, the 100th being the 100th of the body and the last three dots.
C14_Witness ==
    /\ gh.op = "_simplify_event_details"
    /\ gh.event_type = T("IssueCommentEvent")
    /\ ~Malformed(gh.event_type, gh.event)
    /\ HasCommentBody(gh.event)
    /\ Len(CommentBody(gh.event)) = 150
    /\ IsReturn(gh.out)
    /\ Len(gh.out.ret.d["comment_fragment"].s) = 103
    /\ gh.out.ret.d["comment_fragment"].s[100] = CommentBody(gh.event)[100]
    /\ SubSeq(gh.out.ret.d["comment_fragment"].s, 101, 103) = <<".", ".", ".">>

\* A push event whose payload holds a ref that is a string and a list of
\* commits that each hold a message.
WellFormedPush(event) ==
    /\ ~Malformed(T("PushEvent"), event)
    /\ HasKey(event, "payload")
    /\ HasKey(event.d["payload"], "ref")
    /\ HasKey(event.d["payload"], "commits")
    /\ IsList(event.d["payload"].d["commits"])
    /\ \A i \in 1 .. Len(event.d["payload"].d["commits"].l) :
          /\ IsDict(event.d["payload"].d["commits"].l[i])
          /\ HasKey(event.d["payload"].d["commits"].l[i], "message")
          /\ IsStr(event.d["payload"].d["commits"].l[i].d["message"])

\* The ref without its "refs/heads/" prefix.
BranchName(ref) == Str(SelectSeq(ref.s, LAMBDA token : token # "refs/heads/"))

\* C15 (as claimed): for a push event whose payload holds n commits, the
\* details hold the branch name (the ref with "refs/heads/" stripped),
\* commit_count equal to n, and commit_messages equal to the first lines of
\* the first min(n, 3) commit messages in payload order.
C15_PushDetails ==
    (/\ gh.op = "_simplify_event_details"
     /\ gh.event_type = T("PushEvent")
     /\ WellFormedPush(gh.event)) =>
        LET payload == gh.event.d["payload"]
            commits == payload.d["commits"].l
            n == Len(commits)
            listed == IF n < 3 THEN n ELSE 3
        IN  /\ IsReturn(gh.out)
            /\ \E key \in DOMAIN gh.out.ret.d :
                  gh.out.ret.d[key] = BranchName(payload.d["ref"])
            /\ gh.out.ret.d["commit_count"] = Number(n)
            /\ gh.out.ret.d["commit_messages"] =
                  List([i \in 1 .. listed |-> Str(FirstLine(commits[i].d["message"].s))])

-----------------------------------------------------------------------------
(* Claims about the command, checked under SpecCli                          *)

\* GITHUB_TOKEN is not set or is empty.
TokenAbsent == run.token = None \/ run.token = Str(<<>>)

\* C12: in every run where the token is absent no HTTP request is ever issued,
\* neither for the validation of the credentials nor for the events, the run
\* never completes, and it ends with an error.
C12_MissingTokenIsFatal ==
    /\ [](TokenAbsent => run.requests = <<>> /\ run.pc \in {"start", "parsed", "failed"})
    /\ TokenAbsent ~> (run.pc = "failed" /\ IsRaise(run.error) /\ run.requests = <<>>)

\* C12 witness: a run with valid dates and no token has ended with the
\* ValueError of get_github_token and has issued no request.
C12_Witness ==
    /\ run.token = None
    /\ run.pc = "failed"
    /\ run.at = "get_github_token"
    /\ run.error = Raise("ValueError")
    /\ run.requests = <<>>
    /\ sources = <<>>

\* C13 (as claimed): a run in which the fetch of the events fails for every
\* registered source does not complete; a completed run has a source whose
\* fetch returned.
C13_TotalFetchFailureFails ==
    run.pc = "done" => \E i \in 1 .. Len(run.fetch) : IsReturn(run.fetch[i])

=============================================================================
